---- MODULE Spec2Model ----
(***************************************************************************)
(* Model of the encrypted telemetry channel (communication/*.py), of the   *)
(* wiring in run_complex_simulation / run_simulation, and of the safety    *)
(* policy get_safe_action (main_autonomous_complex.py).                    *)
(*                                                                         *)
(* Distances, throttle and steering are floats in the source; the model    *)
(* keeps them as integers in tenths (10.0 is 100, -0.5 is -5, 0.1 is 1).   *)
(* Every float literal of the policy has at most one decimal digit, so     *)
(* comparisons and min are exact at this scale.                            *)
(***************************************************************************)
EXTENDS Integers, Sequences, FiniteSets, TLC

VARIABLES
    keyFile,     \* secret.key: Absent, or its bytes (Empty after open "wb", else a key)
    busy,        \* loopback UDP ports bound by other processes
    TEST_PORT,   \* run_*_simulation's local TEST_PORT
    probeOk,     \* outcome of the caller's probe bind ("none" before the probe)
    mpc,         \* position of the main thread
    pc,          \* position of the Broadcaster ("B") and Receiver ("R") threads
    port,        \* the port argument each thread was started with (0: not started)
    key,         \* per thread: the value its current load_key call holds/returned
    rbound,      \* port the Receiver's socket is bound to (0: none)
    net,         \* datagrams queued at the Receiver's socket, in arrival order
    rdata,       \* the datagram the Receiver is processing
    processed,   \* history: datagrams the Receiver took, with the key it loaded
    surfaced,    \* history: what the Receiver printed, in order
    sent,        \* history: last sendto of the Broadcaster ("none", "ok", "failed")
    lastTok,     \* history: the envelope the Broadcaster passed to its last sendto
    sendTo,      \* history: the port of the Broadcaster's last sendto (0: none)
    excSink,     \* where the Receiver's bind exception ended up ("none" if not raised)
    writes,      \* history: how many times generate_key wrote a key to the file
    used,        \* history: the keys either thread has built a Fernet with
    returned,    \* history: the values load_key calls have returned
    step,        \* the simulation loop's step counter, modulo StepMod
    obs,         \* the sensor snapshot of the agent for this tick
    actions      \* the command computed for the agent this tick

vars == <<keyFile, busy, TEST_PORT, probeOk, mpc, pc, port, key, rbound, net,
          rdata, processed, surfaced, sent, lastTok, sendTo, excSink, writes,
          used, returned, step, obs, actions>>

commVars == <<keyFile, busy, pc, port, key, rbound, net, rdata, processed,
              surfaced, sent, lastTok, sendTo, excSink, writes, used,
              returned>>

simVars == <<step, obs, actions>>

----------------------------------------------------------------------------
(* Bounds of the model *)

\* datagrams the Receiver takes from its socket in one run
MaxRecv == 3
\* datagrams the socket buffer holds; a datagram arriving at a full buffer is lost
MaxQueue == 1
\* the step counter is kept modulo StepMod
StepMod == 2

----------------------------------------------------------------------------
(* Small helpers *)

Min2(a, b) == IF a < b THEN a ELSE b

\* Python's min() over a non-empty list: an element no other element is below
SeqMin(s) ==
    CHOOSE m \in {s[i] : i \in 1..Len(s)} : \A i \in 1..Len(s) : m <= s[i]

\* Python's s[lo:hi] for 0 <= lo <= hi (0-based, hi exclusive, clipped to len(s))
Slice(s, lo, hi) == SubSeq(s, lo + 1, Min2(hi, Len(s)))

----------------------------------------------------------------------------
(* encryption_utils.py *)

Absent == "absent"
Empty == "empty"
Threads == {"B", "R"}

\* Fernet.generate_key(): 32 random bytes; two calls collide with probability
\* 2^-256, so the key of a call is named after the one thread that made it (a
\* thread generates at most once: afterwards the file exists).
GenKey(t) == IF t = "B" THEN "KB" ELSE "KR"

\* a key persisted by an earlier deployment
OldKey == "K0"

\* Fernet(key): raises ValueError unless key is 32 url-safe base64 bytes
ValidKey(k) == k \notin {Absent, Empty}

\* results of the calls that may raise: the value, or the exception raised
Ok(v) == [ok |-> TRUE, val |-> v, exc |-> "none"]
Raise(e) == [ok |-> FALSE, val |-> <<>>, exc |-> e]

\* json.dumps(dict): the field-named text of the dict, fields in insertion order
json_dumps(data) == data

\* message.encode(): the UTF-8 bytes of a str
encode(s) == [utf8 |-> TRUE, text |-> s]
\* bytes that are not UTF-8 (only another sender can put them in an envelope)
BadBytes == [utf8 |-> FALSE, text |-> <<>>]
\* bytes.decode(): the str, or UnicodeDecodeError
decode(b) == IF b.utf8 THEN Ok(b.text) ELSE Raise("UnicodeDecodeError")

\* Fernet(k).encrypt(bytes): an authenticated envelope, readable with k only
FernetEncrypt(k, bytes) == [tok |-> TRUE, k |-> k, body |-> bytes]
\* bytes that are no Fernet token at all
Garbage == [tok |-> FALSE, k |-> "none", body |-> BadBytes]

\* Fernet(k).decrypt(token): the bytes, or InvalidToken
FernetDecrypt(k, d) ==
    IF d.tok /\ d.k = k THEN Ok(d.body) ELSE Raise("InvalidToken")

\* encrypt_message, after its load_key returned k
encrypt_message(k, message) ==
    IF ValidKey(k) THEN Ok(FernetEncrypt(k, encode(message)))
    ELSE Raise("ValueError")

\* decrypt_message, after its load_key returned k
decrypt_message(k, token) ==
    IF ~ValidKey(k) THEN Raise("ValueError")
    ELSE LET b == FernetDecrypt(k, token)
         IN IF b.ok THEN decode(b.val) ELSE b

----------------------------------------------------------------------------
(* load_key / generate_key, one step per file-system operation, for thread t *)

\* line 13: os.path.exists(KEY_FILE); when absent, line 7: Fernet.generate_key()
LkExists(t) ==
    /\ pc[t] = "lk_exists"
    /\ IF keyFile = Absent
       THEN /\ key' = [key EXCEPT ![t] = GenKey(t)]
            /\ pc' = [pc EXCEPT ![t] = "gk_open"]
       ELSE /\ pc' = [pc EXCEPT ![t] = "lk_read"]
            /\ UNCHANGED key
    /\ UNCHANGED <<keyFile, busy, TEST_PORT, probeOk, mpc, port, rbound, net,
                   rdata, processed, surfaced, sent, lastTok, sendTo, excSink,
                   writes, used, returned, step, obs, actions>>

\* line 8: open(KEY_FILE, "wb") creates the file, or truncates it
GkOpen(t) ==
    /\ pc[t] = "gk_open"
    /\ keyFile' = Empty
    /\ pc' = [pc EXCEPT ![t] = "gk_write"]
    /\ UNCHANGED <<busy, TEST_PORT, probeOk, mpc, port, key, rbound, net,
                   rdata, processed, surfaced, sent, lastTok, sendTo, excSink,
                   writes, used, returned, step, obs, actions>>

\* line 9: f.write(key) puts the 44 bytes in the BufferedWriter's buffer
GkWrite(t) ==
    /\ pc[t] = "gk_write"
    /\ pc' = [pc EXCEPT ![t] = "gk_close"]
    /\ UNCHANGED <<keyFile, busy, TEST_PORT, probeOk, mpc, port, key, rbound,
                   net, rdata, processed, surfaced, sent, lastTok, sendTo,
                   excSink, writes, used, returned, step, obs, actions>>

\* leaving the with block closes f, which flushes the buffer to the file;
\* line 10: return key
GkClose(t) ==
    /\ pc[t] = "gk_close"
    /\ keyFile' = key[t]
    /\ writes' = writes + 1
    /\ returned' = returned \cup {key[t]}
    /\ pc' = [pc EXCEPT ![t] = "have_key"]
    /\ UNCHANGED <<busy, TEST_PORT, probeOk, mpc, port, key, rbound, net,
                   rdata, processed, surfaced, sent, lastTok, sendTo, excSink,
                   used, step, obs, actions>>

\* lines 15-16: open(KEY_FILE, "rb") and return f.read()
LkRead(t) ==
    /\ pc[t] = "lk_read"
    /\ key' = [key EXCEPT ![t] = keyFile]
    /\ returned' = returned \cup {keyFile}
    /\ pc' = [pc EXCEPT ![t] = "have_key"]
    /\ UNCHANGED <<keyFile, busy, TEST_PORT, probeOk, mpc, port, rbound, net,
                   rdata, processed, surfaced, sent, lastTok, sendTo, excSink,
                   writes, used, step, obs, actions>>

----------------------------------------------------------------------------
(* broadcaster.py *)

\* line 8: the status record of the agent
StatusData(agent_id) ==
    << <<"id", agent_id>>, <<"status", "ACTIVE">>, <<"speed", "25.0">> >>

\* the agent_id run_complex_simulation passes to start_broadcaster
AgentId == "Autonomous_Agent"

\* what a datagram that reaches the Receiver's socket does to its queue: the
\* socket buffer keeps it, or drops it when full or when nothing is bound there
Deliver(q, d, p) ==
    IF rbound # 0 /\ rbound = p /\ Len(q) < MaxQueue THEN Append(q, d) ELSE q

\* what an exception raised inside the loop of start_broadcaster does to the
\* thread: nothing catches it, the thread ends
BroadcasterAfterError == "dead"

\* line 10: Fernet(key).encrypt(...) and sock.sendto(..., target), then line 11
BSend ==
    /\ pc["B"] = "have_key"
    /\ LET e == encrypt_message(key["B"], json_dumps(StatusData(AgentId)))
       IN /\ used' = IF e.ok THEN used \cup {key["B"]} ELSE used
          /\ IF ~e.ok
             THEN /\ pc' = [pc EXCEPT !["B"] = BroadcasterAfterError]
                  /\ UNCHANGED <<net, sent, lastTok, sendTo>>
             ELSE /\ lastTok' = e.val
                  /\ sendTo' = port["B"]
                  /\ \E outcome \in {"ok", "failed"} :
                        /\ sent' = outcome
                        /\ IF outcome = "ok"
                           THEN /\ net' = Deliver(net, e.val, port["B"])
                                /\ pc' = [pc EXCEPT !["B"] = "sleep"]
                           ELSE /\ net' = net
                                /\ pc' = [pc EXCEPT !["B"] = BroadcasterAfterError]
    /\ UNCHANGED <<keyFile, busy, TEST_PORT, probeOk, mpc, port, key, rbound,
                   rdata, processed, surfaced, excSink, writes, returned,
                   step, obs, actions>>

\* line 11: time.sleep(interval), then the next cycle's encrypt_message
BSleep ==
    /\ pc["B"] = "sleep"
    /\ pc' = [pc EXCEPT !["B"] = "lk_exists"]
    /\ UNCHANGED <<keyFile, busy, TEST_PORT, probeOk, mpc, port, key, rbound,
                   net, rdata, processed, surfaced, sent, lastTok, sendTo,
                   excSink, writes, used, returned, step, obs, actions>>

----------------------------------------------------------------------------
(* receiver.py *)

\* who gets an exception that leaves start_receiver: the function is the target
\* of a threading.Thread (main_autonomous_complex.py line 200), so it ends in
\* threading.excepthook of that thread, not in the code that called start()
BindErrorSink == "thread_excepthook"

\* line 6: sock.bind(("127.0.0.1", port)); OSError when the port is taken
RBind ==
    /\ pc["R"] = "bind"
    /\ IF port["R"] \in busy
       THEN /\ pc' = [pc EXCEPT !["R"] = "bind_failed"]
            /\ excSink' = BindErrorSink
            /\ UNCHANGED rbound
       ELSE /\ pc' = [pc EXCEPT !["R"] = "recvfrom"]
            /\ rbound' = port["R"]
            /\ UNCHANGED excSink
    /\ UNCHANGED <<keyFile, busy, TEST_PORT, probeOk, mpc, port, key, net,
                   rdata, processed, surfaced, sent, lastTok, sendTo, writes,
                   used, returned, step, obs, actions>>

\* line 9: sock.recvfrom(2048) blocks until a datagram is queued
RRecv ==
    /\ pc["R"] = "recvfrom"
    /\ net # <<>>
    /\ Len(processed) < MaxRecv
    /\ rdata' = Head(net)
    /\ net' = Tail(net)
    /\ pc' = [pc EXCEPT !["R"] = "lk_exists"]
    /\ UNCHANGED <<keyFile, busy, TEST_PORT, probeOk, mpc, port, key, rbound,
                   processed, surfaced, sent, lastTok, sendTo, excSink,
                   writes, used, returned, step, obs, actions>>

\* a receive loop without the try/except of lines 10-14
ReceiverAfterError_Uncaught == "dead"

\* where the Receiver goes when decrypt_message raised: line 13 catches every
\* Exception and line 14 passes, back to the top of the loop
ReceiverAfterError == "recvfrom"

\* what the Receiver prints for a datagram: lines 11-12 on success, nothing
\* when decrypt_message raised
Surface(out, r) == IF r.ok THEN Append(out, r.val) ELSE out

\* lines 11-14, after decrypt_message's load_key returned
RDecrypt ==
    /\ pc["R"] = "have_key"
    /\ LET r == decrypt_message(key["R"], rdata)
       IN /\ surfaced' = Surface(surfaced, r)
          /\ pc' = [pc EXCEPT !["R"] = IF r.ok THEN "recvfrom"
                                       ELSE ReceiverAfterError]
    /\ processed' = Append(processed, [d |-> rdata, k |-> key["R"]])
    /\ used' = IF ValidKey(key["R"]) THEN used \cup {key["R"]} ELSE used
    /\ UNCHANGED <<keyFile, busy, TEST_PORT, probeOk, mpc, port, key, rbound,
                   net, rdata, sent, lastTok, sendTo, excSink, writes,
                   returned, step, obs, actions>>

\* what other senders can put on the port: bytes that are no token, and a
\* token under the deployment's key whose body is not UTF-8
ExternalDatagrams ==
    {Garbage}
    \cup (IF ValidKey(keyFile) THEN {FernetEncrypt(keyFile, BadBytes)} ELSE {})

\* a datagram from another sender arrives at the Receiver's socket
ExternalSend ==
    /\ rbound # 0
    /\ Len(net) < MaxQueue
    /\ \E d \in ExternalDatagrams : net' = Append(net, d)
    /\ UNCHANGED <<keyFile, busy, TEST_PORT, probeOk, mpc, pc, port, key,
                   rbound, rdata, processed, surfaced, sent, lastTok, sendTo,
                   excSink, writes, used, returned, step, obs, actions>>

----------------------------------------------------------------------------
(* main_autonomous_complex.py: get_safe_action *)

\* line 123
DANGER_DISTANCE == 100
\* line 124
WARNING_DISTANCE == 200
\* line 125
SAFE_DISTANCE == 300
\* lines 149, 151 and 161: the 5.0 of the left, right and side-detector tests
SIDE_LIMIT == 50
\* line 108: the default throttle, 0.7
DEFAULT_THROTTLE == 7
\* line 107: the default steering, 0.0
DEFAULT_STEERING == 0

\* A snapshot is agent_obs: lidarKind "missing" when there is no 'lidar' /
\* 'cloud_points' entry (line 111 then reads []), sideKind "missing" when there
\* is no 'side_detector' entry (line 155 then reads []), "list" for a Python
\* list and "other" for any other sequence type (a tuple, an ndarray).
cloud_points(snap) == IF snap.lidarKind = "missing" THEN <<>> ELSE snap.lidar

side_detector(snap) == IF snap.sideKind = "missing" THEN <<>> ELSE snap.side

\* line 116
front_sector(lidar) == Slice(lidar, 90, 150)
\* line 141
left_sector(lidar) == Slice(lidar, 150, 180)
\* line 142
right_sector(lidar) == Slice(lidar, 60, 90)

\* the thresholds taken inclusively
FrontThrottle_Inclusive(min_front_distance) ==
    IF min_front_distance <= DANGER_DISTANCE THEN -5
    ELSE IF min_front_distance <= WARNING_DISTANCE THEN 2
    ELSE IF min_front_distance <= SAFE_DISTANCE THEN 4
    ELSE 7

\* an emergency brake of -1.5
FrontThrottle_HardBrake(min_front_distance) ==
    IF min_front_distance < DANGER_DISTANCE THEN -15
    ELSE IF min_front_distance < WARNING_DISTANCE THEN 2
    ELSE IF min_front_distance < SAFE_DISTANCE THEN 4
    ELSE 7

\* lines 127-138: the throttle for a front minimum
FrontThrottle(min_front_distance) ==
    IF min_front_distance < DANGER_DISTANCE THEN -5
    ELSE IF min_front_distance < WARNING_DISTANCE THEN 2
    ELSE IF min_front_distance < SAFE_DISTANCE THEN 4
    ELSE 7

\* lines 113-138: the throttle after the front-sector step
ThrottleAfterFront(lidar) ==
    IF Len(lidar) > 0 /\ Len(front_sector(lidar)) > 0
    THEN FrontThrottle(SeqMin(front_sector(lidar)))
    ELSE DEFAULT_THROTTLE

\* the right test made before the left one
SteeringOf_RightFirst(lidar) ==
    IF /\ Len(lidar) > 0
       /\ Len(left_sector(lidar)) > 0
       /\ Len(right_sector(lidar)) > 0
    THEN IF SeqMin(right_sector(lidar)) < SIDE_LIMIT THEN -1
         ELSE IF SeqMin(left_sector(lidar)) < SIDE_LIMIT THEN 1
         ELSE DEFAULT_STEERING
    ELSE DEFAULT_STEERING

\* lines 144-152: the steering
SteeringOf(lidar) ==
    IF /\ Len(lidar) > 0
       /\ Len(left_sector(lidar)) > 0
       /\ Len(right_sector(lidar)) > 0
    THEN IF SeqMin(left_sector(lidar)) < SIDE_LIMIT THEN 1
         ELSE IF SeqMin(right_sector(lidar)) < SIDE_LIMIT THEN -1
         ELSE DEFAULT_STEERING
    ELSE DEFAULT_STEERING

\* line 156: isinstance(side_detector, list) and len(side_detector) >= 4
SideGuard(snap) ==
    /\ snap.sideKind \in {"missing", "list"}
    /\ Len(side_detector(snap)) >= 4

\* line 158: unpacking into four names raises ValueError unless len is 4
SideUnpackRaises(snap) == SideGuard(snap) /\ Len(side_detector(snap)) # 4

\* the side step assigning 0.3 instead of taking the minimum
SideClamp_Assign(throttle, side) ==
    IF side[1] < SIDE_LIMIT \/ side[4] < SIDE_LIMIT THEN 3 ELSE throttle

\* lines 161-162: throttle = min(throttle, 0.3) when left_front or right_front
\* is below 5.0
SideClamp(throttle, side) ==
    IF side[1] < SIDE_LIMIT \/ side[4] < SIDE_LIMIT
    THEN Min2(throttle, 3)
    ELSE throttle

\* lines 99-164: the command [steering, throttle], or the exception raised
get_safe_action(snap) ==
    LET lidar == cloud_points(snap)
        steering == SteeringOf(lidar)
        throttle == ThrottleAfterFront(lidar)
    IN IF SideUnpackRaises(snap) THEN Raise("ValueError")
       ELSE IF SideGuard(snap)
            THEN Ok(<<steering, SideClamp(throttle, side_detector(snap))>>)
            ELSE Ok(<<steering, throttle>>)

----------------------------------------------------------------------------
(* The snapshots the model feeds the policy *)

\* a range far beyond every threshold
Far == 500
\* a range below every threshold
Near == 30

\* a 240-point lidar cut to L points: one value per sector, Far elsewhere, and
\* one Near point at position sp (1-based; 0: none)
LidarOf(L, f, l, r, sp) ==
    [i \in 1..L |->
        IF i = sp THEN Near
        ELSE IF i \in 91..150 THEN f
        ELSE IF i \in 151..180 THEN l
        ELSE IF i \in 61..90 THEN r
        ELSE Far]

LidarLens == {0, 90, 91, 150, 151, 180, 240}
FrontVals == {99, 100, 199, 200, 299, 300}
SideVals == {49, 50}
NearAt == {0, 60, 61, 90, 91, 150, 151, 180, 181}

Lidars ==
    {LidarOf(L, f, l, r, sp) :
        L \in LidarLens, f \in FrontVals, l \in SideVals, r \in SideVals,
        sp \in NearAt}

\* side-detector values: [left_front, left_rear, right_rear, right_front],
\* and lists that are too short or too long
SideLists ==
    {<<lf, Near, Near, rf>> : lf \in SideVals, rf \in SideVals}
    \cup {<<>>, <<Near, Near, Near>>, <<Near, Near, Near, Near, Near>>}

Snapshots ==
    {[lidarKind |-> "list", lidar |-> ld, sideKind |-> "list", side |-> sd] :
        ld \in Lidars, sd \in SideLists}
    \cup {[lidarKind |-> "list", lidar |-> ld, sideKind |-> "missing",
           side |-> <<>>] : ld \in Lidars}
    \cup {[lidarKind |-> "list", lidar |-> ld, sideKind |-> "other",
           side |-> <<Near, Near, Near, Near>>] : ld \in Lidars}
    \cup {[lidarKind |-> "missing", lidar |-> <<>>, sideKind |-> "list",
           side |-> sd] : sd \in SideLists}
    \cup {[lidarKind |-> "missing", lidar |-> <<>>, sideKind |-> "missing",
           side |-> <<>>]}

\* an observation with no sensor entries, and a vehicle 5.0 ahead
EmptySnap ==
    [lidarKind |-> "missing", lidar |-> <<>>, sideKind |-> "missing",
     side |-> <<>>]
BlockedSnap ==
    [lidarKind |-> "list", lidar |-> LidarOf(240, 50, 50, 50, 0),
     sideKind |-> "missing", side |-> <<>>]

\* the snapshots env.step and env.reset return while the channel is studied
DriveSnaps == {EmptySnap, BlockedSnap}

\* the command of the tick before there is one
NoAction == <<0, 0>>

----------------------------------------------------------------------------
(* main_autonomous_complex.py: run_complex_simulation *)

\* lines 191-197: the probe bind on 5000; 5001 when it raises OSError
FallbackPort == 5001
DefaultPort == 5000

MProbe ==
    /\ mpc = "probe"
    /\ IF DefaultPort \in busy
       THEN /\ TEST_PORT' = FallbackPort
            /\ probeOk' = "failed"
       ELSE /\ TEST_PORT' = TEST_PORT
            /\ probeOk' = "ok"
    /\ mpc' = "start_recv"
    /\ UNCHANGED <<commVars, simVars>>

\* the port argument the caller gives start_receiver (line 200)
ReceiverPortArg == TEST_PORT
\* a caller that starts the Broadcaster on its default port
BroadcasterPortArg_Default == DefaultPort

\* the port argument the caller gives start_broadcaster (line 201)
BroadcasterPortArg == TEST_PORT

\* lines 200 and 202: recv_thread.start()
MStartRecv ==
    /\ mpc = "start_recv"
    /\ port' = [port EXCEPT !["R"] = ReceiverPortArg]
    /\ pc' = [pc EXCEPT !["R"] = "bind"]
    /\ mpc' = "start_send"
    /\ UNCHANGED <<keyFile, busy, TEST_PORT, probeOk, key, rbound, net, rdata,
                   processed, surfaced, sent, lastTok, sendTo, excSink,
                   writes, used, returned, simVars>>

\* lines 201 and 203: send_thread.start()
MStartSend ==
    /\ mpc = "start_send"
    /\ port' = [port EXCEPT !["B"] = BroadcasterPortArg]
    /\ pc' = [pc EXCEPT !["B"] = "lk_exists"]
    /\ mpc' = "policy"
    /\ UNCHANGED <<keyFile, busy, TEST_PORT, probeOk, key, rbound, net, rdata,
                   processed, surfaced, sent, lastTok, sendTo, excSink,
                   writes, used, returned, simVars>>

\* lines 218-220: the action of the agent from its snapshot; an exception of
\* get_safe_action leaves the loop through the finally clause
SimPolicy ==
    /\ mpc = "policy"
    /\ LET r == get_safe_action(obs)
       IN IF r.ok
          THEN /\ actions' = r.val
               /\ mpc' = "env_step"
          ELSE /\ actions' = actions
               /\ mpc' = "crashed"
    /\ UNCHANGED <<commVars, TEST_PORT, probeOk, step, obs>>

\* a loop that steps only when the Receiver is not blocked in recvfrom
SimMayStep_WaitsForReceiver == pc["R"] # "recvfrom"

\* what the simulation loop needs of the other threads before it steps the
\* environment: nothing (lines 216-238 take no lock and join no thread)
SimMayStep == TRUE

\* lines 223-247: env.step, render, step += 1, and the all-done test
SimEnvStep(snaps) ==
    /\ mpc = "env_step"
    /\ SimMayStep
    /\ obs' \in snaps
    /\ step' = (step + 1) % StepMod
    /\ \E allDone \in BOOLEAN :
          mpc' = IF allDone THEN "episode_reset" ELSE "tick_sleep"
    /\ UNCHANGED <<commVars, TEST_PORT, probeOk, actions>>

\* lines 248-274: env.reset(), step = 0, time.sleep(1)
SimReset(snaps) ==
    /\ mpc = "episode_reset"
    /\ obs' \in snaps
    /\ step' = 0
    /\ mpc' = "tick_sleep"
    /\ UNCHANGED <<commVars, TEST_PORT, probeOk, actions>>

\* line 276: time.sleep(0.01)
SimSleep ==
    /\ mpc = "tick_sleep"
    /\ mpc' = "policy"
    /\ UNCHANGED <<commVars, TEST_PORT, probeOk, simVars>>

----------------------------------------------------------------------------
(* Specifications *)

\* the process at the top of run_complex_simulation's step 2: the key file of
\* an earlier run may exist, other processes may hold the ports
Init ==
    /\ keyFile \in {Absent, OldKey}
    /\ busy \in SUBSET {DefaultPort, FallbackPort}
    /\ TEST_PORT = DefaultPort
    /\ probeOk = "none"
    /\ mpc = "probe"
    /\ pc = [t \in Threads |-> "idle"]
    /\ port = [t \in Threads |-> 0]
    /\ key = [t \in Threads |-> Absent]
    /\ rbound = 0
    /\ net = <<>>
    /\ rdata = Garbage
    /\ processed = <<>>
    /\ surfaced = <<>>
    /\ sent = "none"
    /\ lastTok = Garbage
    /\ sendTo = 0
    /\ excSink = "none"
    /\ writes = 0
    /\ used = {}
    /\ returned = {}
    /\ step = 0
    /\ obs = EmptySnap
    /\ actions = NoAction

\* the channel: the caller's port selection and thread start, the two threads
\* and the other senders. The simulation loop shares no variable with them.
Channel ==
    \/ MProbe
    \/ MStartRecv
    \/ MStartSend
    \/ \E t \in Threads : LkExists(t)
    \/ \E t \in Threads : GkOpen(t)
    \/ \E t \in Threads : GkWrite(t)
    \/ \E t \in Threads : GkClose(t)
    \/ \E t \in Threads : LkRead(t)
    \/ BSend
    \/ BSleep
    \/ RBind
    \/ RRecv
    \/ RDecrypt

Next ==
    \/ Channel
    \/ ExternalSend

Spec == Init /\ [][Next]_vars

\* the three loops together, with no other sender on the port
Loops ==
    \/ Channel
    \/ SimPolicy
    \/ SimEnvStep(DriveSnaps)
    \/ SimReset(DriveSnaps)
    \/ SimSleep

\* the steps of each thread
MainSteps ==
    \/ MProbe
    \/ MStartRecv
    \/ MStartSend
    \/ SimPolicy
    \/ SimEnvStep(DriveSnaps)
    \/ SimReset(DriveSnaps)
    \/ SimSleep

BroadcasterSteps ==
    \/ LkExists("B")
    \/ GkOpen("B")
    \/ GkWrite("B")
    \/ GkClose("B")
    \/ LkRead("B")
    \/ BSend
    \/ BSleep

ReceiverSteps ==
    \/ LkExists("R")
    \/ GkOpen("R")
    \/ GkWrite("R")
    \/ GkClose("R")
    \/ LkRead("R")
    \/ RBind
    \/ RRecv
    \/ RDecrypt

\* Fair scheduling: a thread that can take a step eventually takes one (the
\* interpreter hands the GIL on at every switch interval, and sleep, recvfrom
\* and file I/O release it).
FairSpec ==
    /\ Init
    /\ [][Loops]_vars
    /\ WF_vars(MainSteps)
    /\ WF_vars(BroadcasterSteps)
    /\ WF_vars(ReceiverSteps)

\* the simulation loop at line 218 with the threads just started, for every
\* snapshot the environment may hand the policy
InitPolicy ==
    /\ keyFile = OldKey
    /\ busy = {}
    /\ TEST_PORT = DefaultPort
    /\ probeOk = "ok"
    /\ mpc = "policy"
    /\ pc = [t \in Threads |-> IF t = "B" THEN "lk_exists" ELSE "bind"]
    /\ port = [t \in Threads |-> DefaultPort]
    /\ key = [t \in Threads |-> Absent]
    /\ rbound = 0
    /\ net = <<>>
    /\ rdata = Garbage
    /\ processed = <<>>
    /\ surfaced = <<>>
    /\ sent = "none"
    /\ lastTok = Garbage
    /\ sendTo = 0
    /\ excSink = "none"
    /\ writes = 0
    /\ used = {}
    /\ returned = {}
    /\ step = 0
    /\ obs \in Snapshots
    /\ actions = NoAction

SpecPolicy == InitPolicy /\ [][SimPolicy]_vars

----------------------------------------------------------------------------
(* Properties *)

\* C1: one key is active for the whole deployment: the key file is written at
\* most once and every encrypt_message and decrypt_message call of either
\* thread builds its Fernet with the same key.
C1_OneKeyWrittenOnce == writes <= 1 /\ Cardinality(used) <= 1

\* C2: load_key is stable: once a call has generated, persisted and returned a
\* key, every call returns that key: no two calls, of either thread, return
\* different keys.
C2_LoadKeyStable == Cardinality({k \in returned : ValidKey(k)}) <= 1

\* an entry of the Receiver's history decrypts: the key it loaded is a Fernet
\* key, the datagram is a token under that key, and the body is UTF-8
DecryptsOk(e) == ValidKey(e.k) /\ e.d.tok /\ e.d.k = e.k /\ e.d.body.utf8

RECURSIVE ExpectedSurfaced(_)
\* the texts of the entries that decrypt, in arrival order
ExpectedSurfaced(h) ==
    IF h = <<>> THEN <<>>
    ELSE LET e == h[Len(h)]
             rest == ExpectedSurfaced(SubSeq(h, 1, Len(h) - 1))
         IN IF DecryptsOk(e) THEN Append(rest, e.d.body.text) ELSE rest

ReceiverLoopPcs ==
    {"recvfrom", "lk_exists", "gk_open", "gk_write", "gk_close", "lk_read",
     "have_key"}

C4_SendFailureTolerated == sent = "failed" => pc["B"] # "dead"

\* the text the Broadcaster encrypts each cycle
StatusText == json_dumps(StatusData(AgentId))

\* C5: every envelope the Broadcaster produced and the Receiver took decrypts,
\* with the key the Receiver loaded for it, to the plaintext that was encrypted.
C5_RoundTripAcrossThreads ==
    \A i \in 1..Len(processed) :
        LET e == processed[i]
        IN (e.d.tok /\ e.d.body = encode(StatusText))
              => decrypt_message(e.k, e.d) = Ok(StatusText)

\* C6: a bind failure of the Receiver reaches the caller that started it.
C6_BindFailureReported == pc["R"] = "bind_failed" => excSink = "caller"

\* C7: the port is 5000 when the caller's probe bind succeeded and 5001
\* otherwise, and from the probe on it is the port both threads are started
\* with, the only port the Receiver binds and the port the Broadcaster sends to.
C7_PortSelectedOnce ==
    /\ probeOk = "none" => (rbound = 0 /\ sendTo = 0 /\ port = [t \in Threads |-> 0])
    /\ probeOk = "ok" => (TEST_PORT = 5000 /\ 5000 \notin busy)
    /\ probeOk = "failed" => (TEST_PORT = 5001 /\ 5000 \in busy)
    /\ \A t \in Threads : port[t] # 0 => port[t] = TEST_PORT
    /\ rbound # 0 => rbound = TEST_PORT
    /\ sendTo # 0 => sendTo = TEST_PORT

\* C7's case: the fallback port, bound by the Receiver and sent to
C7_Witness ==
    /\ probeOk = "failed"
    /\ rbound = 5001
    /\ sendTo = 5001
    /\ sent = "ok"

\* C8: under fair scheduling the simulation loop steps the environment again
\* and again, whatever the Receiver and the Broadcaster do (blocked in
\* recvfrom, failed at bind, sleeping, ended), and the Broadcaster, unless an
\* exception has ended it, sends again and again whatever the Receiver does.
C8_LoopsNeverWait ==
    /\ []<><<SimEnvStep(DriveSnaps)>>_vars
    /\ ([]<><<BSend>>_vars) \/ (<>[](pc["B"] = "dead"))

\* C8's case: the simulation has advanced and the Broadcaster has sent while
\* the Receiver is not running
C8_Witness ==
    /\ pc["R"] = "bind_failed"
    /\ sent = "ok"
    /\ pc["B"] = "sleep"
    /\ step = 1
    /\ mpc = "tick_sleep"

\* the 1-based positions of the front sector that a snapshot's lidar has
FrontIdx(snap) == {i \in 91..150 : i <= Len(cloud_points(snap))}

\* the least range over the front sector
MinFront(snap) ==
    CHOOSE m \in {snap.lidar[i] : i \in FrontIdx(snap)} :
        \A i \in FrontIdx(snap) : m <= snap.lidar[i]

\* the throttle the specification gives for a front minimum (in tenths)
ClaimedThrottle(m) ==
    IF m < 100 THEN -5 ELSE IF m < 200 THEN 2 ELSE IF m < 300 THEN 4 ELSE 7

\* the side-clearance check triggers: a 4-element list with left_front or
\* right_front below 5.0
SideTriggers(snap) ==
    /\ snap.sideKind = "list"
    /\ Len(snap.side) = 4
    /\ (snap.side[1] < 50 \/ snap.side[4] < 50)

\* the side-clearance value is absent, not a list, or a list of at most 4
SideShapeOk(snap) == snap.sideKind # "list" \/ Len(snap.side) <= 4

\* C9: with a non-empty front sector and no side-clearance trigger, the
\* throttle is -0.5, 0.2, 0.4 or 0.7 by the minimum over the front sector
\* (below 10.0, below 20.0, below 30.0, otherwise).
C9_FrontThrottleTable ==
    (mpc # "policy" /\ FrontIdx(obs) # {} /\ SideShapeOk(obs)
        /\ ~SideTriggers(obs))
    => (mpc = "env_step" /\ actions[2] = ClaimedThrottle(MinFront(obs)))

\* C9's case: a front minimum of exactly 10.0 beside a 4-element side vector
\* that does not trigger gives 0.2
C9_Witness ==
    /\ mpc = "env_step"
    /\ FrontIdx(obs) # {}
    /\ obs.sideKind = "list" /\ Len(obs.side) = 4 /\ ~SideTriggers(obs)
    /\ MinFront(obs) = 100
    /\ actions[2] = 2

\* the throttle the specification gives before the side-clearance step
ThrottleBeforeSide(snap) ==
    IF FrontIdx(snap) # {} THEN ClaimedThrottle(MinFront(snap)) ELSE 7

\* C10: when the side-clearance check triggers the throttle is min(t, 0.3), t
\* the throttle of the front-sector step: never above t, and -0.5 stays -0.5;
\* when it does not trigger or there is no vector the throttle is t.
C10_SideClampNeverIncreases ==
    (mpc # "policy" /\ SideShapeOk(obs))
    => /\ mpc = "env_step"
       /\ LET t == ThrottleBeforeSide(obs)
          IN IF SideTriggers(obs)
             THEN /\ actions[2] = Min2(t, 3)
                  /\ actions[2] <= t
                  /\ t = -5 => actions[2] = -5
             ELSE actions[2] = t

\* C10's case: an emergency brake with a vehicle at the left front
C10_Witness ==
    /\ mpc = "env_step"
    /\ SideTriggers(obs)
    /\ obs.side[1] < 50
    /\ FrontIdx(obs) # {}
    /\ MinFront(obs) < 100
    /\ actions[2] = -5

\* the 1-based positions of the left and of the right sector that a
\* snapshot's lidar has
LeftIdx(snap) == {i \in 151..180 : i <= Len(cloud_points(snap))}
RightIdx(snap) == {i \in 61..90 : i <= Len(cloud_points(snap))}

\* the least range of a snapshot's lidar over a non-empty set of positions
MinOver(snap, idx) ==
    CHOOSE m \in {snap.lidar[i] : i \in idx} :
        \A i \in idx : m <= snap.lidar[i]

\* the steering the specification gives for the two side minima (in tenths)
ClaimedSteering(min_left, min_right) ==
    IF min_left < 50 THEN 1 ELSE IF min_right < 50 THEN -1 ELSE 0

\* C11: with non-empty left and right sectors the steering is +0.1 when the
\* left minimum is below 5.0 (also when the right one is), -0.1 when only the
\* right minimum is below 5.0, and 0.0 otherwise: a function of the two side
\* minima alone, whatever the front sector and the side-clearance vector are.
C11_SteeringLeftWins ==
    (mpc # "policy" /\ SideShapeOk(obs) /\ LeftIdx(obs) # {}
        /\ RightIdx(obs) # {})
    => /\ mpc = "env_step"
       /\ actions[1] = ClaimedSteering(MinOver(obs, LeftIdx(obs)),
                                       MinOver(obs, RightIdx(obs)))

\* C11's case: both side minima below 5.0, beside an emergency brake and a
\* triggering side-clearance vector; left wins
C11_Witness ==
    /\ mpc = "env_step"
    /\ LeftIdx(obs) # {} /\ RightIdx(obs) # {}
    /\ MinOver(obs, LeftIdx(obs)) < 50
    /\ MinOver(obs, RightIdx(obs)) < 50
    /\ FrontIdx(obs) # {} /\ MinFront(obs) < 100
    /\ SideTriggers(obs)
    /\ actions = <<1, -5>>

\* the side-clearance vector of a snapshot is missing, or is not a list of
\* exactly four readings
SideNotExpected(snap) == snap.sideKind # "list" \/ Len(snap.side) # 4

\* C12: for every snapshot whose ranging array is missing, empty or shorter
\* than the sector windows and whose side-clearance vector is missing or not
\* of the expected shape, get_safe_action returns a command and never raises;
\* with no ranging data and no side-clearance vector the command is exactly
\* the default [0.0, 0.7].
C12_NeverRaises ==
    (mpc # "policy" /\ Len(cloud_points(obs)) < 180 /\ SideNotExpected(obs))
    => /\ mpc = "env_step"
       /\ (Len(cloud_points(obs)) = 0 /\ obs.sideKind = "missing")
              => actions = <<DEFAULT_STEERING, DEFAULT_THROTTLE>>

\* the record the specification puts on the wire for an agent
ClaimedStatusData(agent_id) ==
    << <<"agent_id", agent_id>>, <<"status", "ACTIVE">>, <<"speed", "25.0">> >>

\* C13: every datagram the Broadcaster emits is the encryption of the record
\* with fields agent_id (the agent the Broadcaster was started for), status
\* ACTIVE and the sample speed, sent once per cycle to the given port, and the
\* sleep of the interval follows it before the next send.
C13_BroadcastRecord ==
    pc["B"] = "sleep"
    => /\ sent = "ok"
       /\ sendTo = port["B"]
       /\ decrypt_message(key["B"], lastTok)
             = Ok(json_dumps(ClaimedStatusData(AgentId)))

\* the values a component of a ControlCommand may take: [-1, 1], in tenths
CommandRange == -10..10

\* C14: for every snapshot, the command get_safe_action returns has its
\* steering and its throttle in [-1, 1].
C14_CommandInRange ==
    mpc = "env_step" => actions[1] \in CommandRange /\ actions[2] \in CommandRange

\* C14's case: a returned command at the lowest throttle and the lowest
\* steering the policy produces
C14_Witness ==
    /\ mpc = "env_step"
    /\ FrontIdx(obs) # {} /\ MinFront(obs) < 100
    /\ actions[2] = -5
    /\ actions[1] = -1

\* C15: no load_key call returns partially written or empty key material: a
\* call that finds the key file present returns a complete key, however it
\* interleaves with another thread's generate_key.
C15_NoPartialKey == \A k \in returned : ValidKey(k)

====
